---- MODULE Spec2Model ----
(***************************************************************************)
(* A model of pore's depot (src/src/depot.rs) and of its command line      *)
(* driver (src/src/main.rs).                                               *)
(*                                                                         *)
(* Strings the code inspects character by character (project paths, URLs,  *)
(* group filter strings) are sequences of one-character strings.  Names    *)
(* that are only compared or used as path components (remote names,        *)
(* directory entries) are TLA+ strings.  A branch name is the sequence of  *)
(* its '/'-separated components, so that refs/remotes/<remote>/<branch>    *)
(* is a file directly in refs/remotes/<remote> exactly when the branch has *)
(* one component.                                                          *)
(***************************************************************************)
EXTENDS Integers, Sequences, FiniteSets, TLC

\* The largest commit identifier remote "a" serves.
MaxCommit == 2

(***************************************************************************)
(* Strings                                                                 *)
(***************************************************************************)
Alpha == {"a", "b", "c", "d", "e", "f", "g", "h", "i", "l", "p", "q", "r", "s", "t", "x", "y"}
Digit == {"1"}
SchemeChars == Alpha \cup Digit \cup {"+", "-", "."}

\* str::starts_with(char) and str::ends_with(char)
starts_with(s, c) == Len(s) > 0 /\ s[1] = c
ends_with(s, c) == Len(s) > 0 /\ s[Len(s)] = c

DotGit == <<".", "g", "i", "t">>

UrlHttps == <<"h", "t", "t", "p", "s", ":", "/", "/", "h", "/">>
UrlHttp == <<"h", "t", "t", "p", ":", "/", "/", "h", "/">>
UrlGit == <<"g", "i", "t", ":", "/", "/", "h", "/">>
UrlSsh == <<"s", "s", "h", ":", "/", "/", "h", "/">>
UrlFile == <<"f", "i", "l", "e", ":", "/", "/", "/", "d", "/">>
UrlScp == <<"h", ":", "d", "/">>
UrlPath == <<"/", "d", "/">>
NoUrl == <<>>

SchemeGit == <<"g", "i", "t">>
SchemeHttps == <<"h", "t", "t", "p", "s">>
SchemeHttp == <<"h", "t", "t", "p">>
SchemeSsh == <<"s", "s", "h">>
SchemeNone == <<>>

\* url::Url::parse without a base URL: the scheme is the longest prefix of
\* scheme characters, it must start with a letter and be followed by ':'.
\* An input with no such prefix is a relative URL, which parse rejects
\* (ParseError::RelativeUrlWithoutBase).
ColonAt(s) == {i \in 1..Len(s) : s[i] = ":" /\ \A j \in 1..(i - 1) : s[j] # ":"}
url_parse(s) ==
  IF ColonAt(s) = {} THEN [ok |-> FALSE, scheme |-> SchemeNone]
  ELSE LET i == CHOOSE k \in ColonAt(s) : TRUE
           scheme == SubSeq(s, 1, i - 1)
       IN IF /\ Len(scheme) > 0
             /\ scheme[1] \in Alpha
             /\ \A j \in 1..Len(scheme) : scheme[j] \in SchemeChars
          THEN [ok |-> TRUE, scheme |-> scheme]
          ELSE [ok |-> FALSE, scheme |-> SchemeNone]

(***************************************************************************)
(* Names                                                                   *)
(***************************************************************************)
RemoteNames == {"a", "b"}

ProjP == <<"p">>
ProjQ == <<"q">>
ProjR == <<"r">>
ProjLead == <<"/", "p">>
ProjTrail == <<"p", "/">>
Projects == {ProjP, ProjQ, ProjR}
ProjectStrings == Projects \cup {ProjLead, ProjTrail}

Main == <<"main">>
Dev == <<"dev">>
Rel1 == <<"rel", "1">>
Branches == {Main, Dev, Rel1}
Entries == {b[1] : b \in Branches}

\* The commits remote `r` serves: disjoint between the two remotes, so that a
\* head's value tells which remote it was fetched from.
CommitB == MaxCommit + 1
CommitsOf(r) == IF r = "a" THEN 1..MaxCommit ELSE {CommitB}

\* What the remote server answers to a fetch of one branch: unreachable,
\* reachable without that branch, or the branch's commit.
NetDown == -1
NetMissing == 0

(***************************************************************************)
(* Directories of ref files.  ents[e] is 0 when the directory has no entry *)
(* e, IsDir when entry e is a subdirectory, and otherwise the commit the   *)
(* file e holds.                                                           *)
(***************************************************************************)
IsDir == -1
NoEnts == [e \in Entries |-> 0]
NoDir == [exists |-> FALSE, ents |-> NoEnts]
EmptyDir == [exists |-> TRUE, ents |-> NoEnts]
Present(d) == {e \in Entries : d.ents[e] # 0}

\* std::fs::read_dir yields the entries in no particular order: read_dir(d)
\* is the set of listings it can yield, the permutations of d's entries.
EntryOrders ==
  {o \in [1..Cardinality(Entries) -> Entries] :
     \A i, j \in 1..Cardinality(Entries) : o[i] = o[j] => i = j}
read_dir(d) == {SelectSeq(o, LAMBDA e : e \in Present(d)) : o \in EntryOrders}

\* copy_entries returning after the first entry it copied.
copy_entries_first(src, dst, entries) ==
  IF entries = <<>> \/ src.ents[Head(entries)] = IsDir
  THEN [ok |-> entries = <<>>, dst |-> dst]
  ELSE [ok |-> TRUE, dst |-> [dst EXCEPT !.ents[Head(entries)] = src.ents[Head(entries)]]]

\* The loop of replace_dir: std::fs::copy of each entry in turn, stopping at
\* the first entry that is not a regular file.
RECURSIVE copy_entries(_, _, _)
copy_entries(src, dst, entries) ==
  IF entries = <<>> THEN [ok |-> TRUE, dst |-> dst]
  ELSE LET e == Head(entries)
       IN IF src.ents[e] = IsDir
          THEN [ok |-> FALSE, dst |-> dst]
          ELSE copy_entries(src, [dst EXCEPT !.ents[e] = src.ents[e]], Tail(entries))

\* replace_dir that does not delete the destination and copies only the
\* entries the destination does not have yet.
replace_dir_merge(src, dst) ==
  IF ~src.exists THEN {[ok |-> FALSE, dst |-> dst]}
  ELSE {copy_entries(src, [dst EXCEPT !.exists = TRUE],
                     SelectSeq(entries, LAMBDA e : dst.ents[e] = 0)) : entries \in read_dir(src)}

\* replace_dir without its check that the source exists: it deletes and
\* recreates the destination, and fails when it lists the source.
replace_dir_unchecked(src, dst) ==
  IF ~src.exists THEN {[ok |-> FALSE, dst |-> EmptyDir]}
  ELSE {copy_entries(src, EmptyDir, entries) : entries \in read_dir(src)}

\* replace_dir as a transaction: a copy that fails puts the destination back
\* as it was.
replace_dir_restoring(src, dst) ==
  IF ~src.exists THEN {[ok |-> FALSE, dst |-> dst]}
  ELSE {LET copied == copy_entries(src, EmptyDir, entries)
        IN IF copied.ok THEN copied ELSE [ok |-> FALSE, dst |-> dst] : entries \in read_dir(src)}

\* Depot::replace_dir(src, dst): the outcomes the call can have, one per
\* listing of the source.
replace_dir(src, dst) ==
  IF ~src.exists THEN {[ok |-> FALSE, dst |-> dst]}
  ELSE LET removed == IF dst.exists THEN NoDir ELSE dst
           created == [removed EXCEPT !.exists = TRUE]
       IN {copy_entries(src, created, entries) : entries \in read_dir(src)}

(***************************************************************************)
(* The depot's directory layout                                            *)
(***************************************************************************)
\* Depot::objects_mirror(project), relative to the depot's path
objects_mirror(project) == <<"objects", project \o DotGit>>
\* refs_mirror with one ref mirror per project, whatever the remote.
refs_mirror_shared(remote, project) == <<"refs", "a", project \o DotGit>>

\* Depot::refs_mirror(remote, project), relative to the depot's path
refs_mirror(remote, project) == <<"refs", remote, project \o DotGit>>

ObjectPaths == {objects_mirror(p) : p \in ProjectStrings}
RefPaths == {refs_mirror(r, p) : r \in RemoteNames, p \in ProjectStrings}

NoPath == <<>>
NoTracking == [r \in RemoteNames |-> [b \in Branches |-> 0]]
\* A bare object mirror: its configured remotes and its remote-tracking refs
\* refs/remotes/<remote>/<branch>.
NoObjectRepo == [exists |-> FALSE, remotes |-> [r \in RemoteNames |-> NoUrl], tracking |-> NoTracking]
\* A bare ref mirror: its alternates file (where it is, relative to the
\* repository, and what it holds), the objects of its own object store and its
\* refs/heads directory.
NoRefRepo ==
  [exists |-> FALSE, alternates_path |-> NoPath, alternates |-> NoPath, objects |-> {}, heads |-> NoDir]

\* The directory refs/remotes/<remote> of a repository, as read_dir and
\* std::fs::copy see it: one entry per first component of a tracked branch.
remotes_dir(repo, remote) ==
  LET t == repo.tracking[remote]
      nested(e) == \E b \in Branches : Len(b) > 1 /\ b[1] = e /\ t[b] # 0
      ents == [e \in Entries |->
                IF nested(e) THEN IsDir
                ELSE IF <<e>> \in Branches THEN t[<<e>>] ELSE 0]
  IN [exists |-> \E b \in Branches : t[b] # 0, ents |-> ents]

\* Depot::open_or_create_bare_repo
open_or_create_bare_repo(om, path) == [om EXCEPT ![path].exists = TRUE]

\* Depot::clone_alternates(src, dst, bare = true): git init --bare creates an
\* empty refs/heads; the alternates file names the source's objects directory.
\* The alternates file naming the source repository, not its objects directory.
alternates_contents_repo(src) == src \o <<"\n">>

\* The alternates file is the source's objects directory and a newline.
alternates_contents(src) == src \o <<"objects", "\n">>
\* Where clone_alternates writes it, relative to the new repository.
alternates_path(bare) ==
  (IF bare THEN <<>> ELSE <<".git">>) \o <<"objects", "info", "alternates">>
clone_alternates_bare(rm, src, dst) ==
  [rm EXCEPT ![dst] = [exists |-> TRUE, alternates_path |-> alternates_path(TRUE),
                       alternates |-> alternates_contents(src), objects |-> {},
                       heads |-> EmptyDir]]

\* A working checkout, by project: `exists` says that <path>/.git exists;
\* `remotes` are the remotes of its configuration; `tracking` is
\* <path>/.git/refs/remotes/<remote> and `stray` is <path>/refs/remotes/<remote>,
\* which is where git_path points while <path>/.git does not exist; `head` is
\* the commit HEAD is detached at and `tree` the commit checked out (0: none);
\* `alternates_path`, `alternates` and `objects` are as in a ref mirror.
NoRemote == [url |-> NoPath, pushurl |-> NoUrl]
NoCheckout ==
  [exists |-> FALSE, alternates_path |-> NoPath, alternates |-> NoPath, objects |-> {}, remotes |-> [r \in RemoteNames |-> NoRemote],
   tracking |-> [r \in RemoteNames |-> NoDir], stray |-> [r \in RemoteNames |-> NoDir],
   head |-> 0, tree |-> 0, branches |-> {}]

\* Depot::clone_alternates(src, dst, bare = false): git init, then the
\* alternates file under <dst>/.git.
clone_alternates_nonbare(wk, src, project) ==
  [wk EXCEPT ![project].exists = TRUE, ![project].alternates_path = alternates_path(FALSE),
             ![project].alternates = alternates_contents(src)]

\* git_path that takes every path for a non-bare repository.
git_path_nonbare(checkout) == "tracking"

\* Depot::git_path: which of the two refs/remotes directories a checkout's
\* git directory holds.
git_path(checkout) == IF checkout.exists THEN "tracking" ELSE "stray"

\* The transport choice of fetch_repo
scheme_supported(scheme) ==
  scheme = SchemeGit \/ scheme = SchemeHttps \/ scheme = SchemeHttp \/ scheme = SchemeSsh \/ scheme = SchemeNone
NoDepth == <<>>
use_git2(scheme, depth) == scheme_supported(scheme) /\ depth = NoDepth

\* i32::to_string for the depths of the model
i32_to_string(n) == IF n = 1 THEN "1" ELSE IF n = 2 THEN "2" ELSE "?"

\* The command line of the external git
git_fetch_args(objects_path, remote, branch, depth) ==
  <<"-C", objects_path, "fetch", remote, branch, "--no-tags">>
    \o (IF depth # NoDepth THEN <<"--depth", i32_to_string(depth[1])>> ELSE <<>>)
NoArgs == <<>>

\* The errors of the fetch step; GitStderr stands for what git wrote on its
\* standard error.
NoError == <<>>
GitStderr == "stderr"
FailedToFetch == <<"failed to fetch">>
FailedToSpawn == <<"failed to spawn git fetch">>
GitFetchFailed == <<"git fetch failed: ", GitStderr>>

\* The fetch with pruning on: the remote's other tracking refs are dropped.
git2_fetch_prune(repo, remote, branch, net) ==
  IF net = NetDown THEN [ok |-> FALSE, repo |-> repo, err |-> FailedToFetch]
  ELSE IF net = NetMissing THEN [ok |-> TRUE, repo |-> repo, err |-> NoError]
  ELSE [ok |-> TRUE, err |-> NoError,
        repo |-> [repo EXCEPT !.tracking[remote] = [b \in Branches |-> IF b = branch THEN net ELSE 0]]]

\* remote.fetch(&[branch]) of libgit2, pruning off: a reachable server's
\* branch moves refs/remotes/<remote>/<branch>; a refspec that matches nothing
\* fetches nothing and is no error.
git2_fetch(repo, remote, branch, net) ==
  IF net = NetDown THEN [ok |-> FALSE, repo |-> repo, err |-> FailedToFetch]
  ELSE IF net = NetMissing THEN [ok |-> TRUE, repo |-> repo, err |-> NoError]
  ELSE [ok |-> TRUE, repo |-> [repo EXCEPT !.tracking[remote][branch] = net], err |-> NoError]

\* The external git whose exit status is not looked at.
git_fetch_unchecked(repo, remote, branch, net) ==
  {[ok |-> FALSE, repo |-> repo, err |-> FailedToSpawn],
   IF net = NetDown \/ net = NetMissing THEN [ok |-> TRUE, repo |-> repo, err |-> NoError]
   ELSE [ok |-> TRUE, repo |-> [repo EXCEPT !.tracking[remote][branch] = net], err |-> NoError]}

\* `git fetch <remote> <branch>`, the outcomes it can have: git cannot be
\* spawned; or it runs, and fails when the server is unreachable or has no
\* such ref.
git_fetch(repo, remote, branch, net) ==
  {[ok |-> FALSE, repo |-> repo, err |-> FailedToSpawn],
   IF net = NetDown \/ net = NetMissing THEN [ok |-> FALSE, repo |-> repo, err |-> GitFetchFailed]
   ELSE [ok |-> TRUE, repo |-> [repo EXCEPT !.tracking[remote][branch] = net], err |-> NoError]}

\* The project check with the test of the last character left out.
valid_project_lead(project) == ~starts_with(project, "/")

\* The two ensure! of fetch_repo on its project argument
valid_project(project) == ~starts_with(project, "/") /\ ~ends_with(project, "/")

(***************************************************************************)
(* Depot::fetch_repo.  `om` and `rm` are the object mirrors and the ref     *)
(* mirrors of the depot; the result holds them as the call leaves them,     *)
(* whether it succeeded, and what the call did: `io` the filesystem and     *)
(* network operations it performed, `transport` and `args` the fetch it     *)
(* ran, `rd` how its replace_dir call ended ("none" without one) and `pre`   *)
(* the destination as that call found it, `err` its error.  A call has one  *)
(* outcome per outcome of its fetch and of its replace_dir.                 *)
(***************************************************************************)
fetch_repo(om, rm, rc, project, branch, depth, net) ==
  IF ~valid_project(project)
  THEN {[ok |-> FALSE, om |-> om, rm |-> rm, io |-> {}, transport |-> "none",
         args |-> NoArgs, rd |-> "none", pre |-> NoDir, err |-> <<"invalid project path">>]}
  ELSE
  LET objects_path == objects_mirror(project)
      repo_url == rc.url \o project \o DotGit
      om1 == [open_or_create_bare_repo(om, objects_path) EXCEPT ![objects_path].remotes[rc.name] = repo_url]
      io1 == {IF om[objects_path].exists THEN "open_bare" ELSE "init_bare", "remote_set_url"}
      parsed_url == url_parse(repo_url)
  IN
  IF ~parsed_url.ok
  THEN {[ok |-> FALSE, om |-> om1, rm |-> rm, io |-> io1, transport |-> "none",
         args |-> NoArgs, rd |-> "none", pre |-> NoDir, err |-> <<"relative URL without a base">>]}
  ELSE
  LET native == use_git2(parsed_url.scheme, depth)
      transport == IF native THEN "git2" ELSE "git"
      args == IF native THEN NoArgs ELSE git_fetch_args(objects_path, rc.name, branch, depth)
      fetches == IF native THEN {git2_fetch(om1[objects_path], rc.name, branch, net)}
                 ELSE git_fetch(om1[objects_path], rc.name, branch, net)
      io2 == io1 \cup {IF native THEN "git2_fetch" ELSE "spawn_git"}
      refs_path == refs_mirror(rc.name, project)
      rm1 == IF rm[refs_path].exists THEN rm
             ELSE clone_alternates_bare(rm, objects_path, refs_path)
      io3 == io2 \cup {IF rm[refs_path].exists THEN "open" ELSE "clone_alternates", "replace_dir"}
      refs_refs == rm1[refs_path].heads
      after(fetched) ==
        LET om2 == [om1 EXCEPT ![objects_path] = fetched.repo]
            objects_refs == remotes_dir(om2[objects_path], rc.name)
        IN IF ~fetched.ok
           THEN {[ok |-> FALSE, om |-> om2, rm |-> rm, io |-> io2, transport |-> transport,
                  args |-> args, rd |-> "none", pre |-> NoDir, err |-> fetched.err]}
           ELSE {[ok |-> replaced.ok, om |-> om2, rm |-> [rm1 EXCEPT ![refs_path].heads = replaced.dst],
                  io |-> io3, transport |-> transport, args |-> args,
                  rd |-> IF replaced.ok THEN "ok" ELSE "failed", pre |-> refs_refs,
                  err |-> IF replaced.ok THEN NoError ELSE <<"replace_dir">>] :
                   replaced \in replace_dir(objects_refs, refs_refs)}
  IN UNION {after(fetched) : fetched \in fetches}

(***************************************************************************)
(* Depot::update_remote_refs, on the checkout of `project`.                 *)
(***************************************************************************)
update_remote_refs(rm, wk, rc, project) ==
  LET mirror_refs == rm[refs_mirror(rc.name, project)].heads
      where == git_path(wk[project])
      repo_refs == wk[project][where][rc.name]
  IN {[ok |-> replaced.ok, wk |-> [wk EXCEPT ![project][where][rc.name] = replaced.dst],
       rd |-> IF replaced.ok THEN "ok" ELSE "failed", pre |-> repo_refs] :
        replaced \in replace_dir(mirror_refs, repo_refs)}

\* util::parse_revision(repo, remote, branch): the commit of the checkout's
\* remote-tracking ref refs/remotes/<remote>/<branch>, 0 when there is none.
parse_revision(checkout, remote, branch) ==
  IF Len(branch) = 1 /\ checkout.tracking[remote].exists /\ checkout.tracking[remote].ents[branch[1]] > 0
  THEN checkout.tracking[remote].ents[branch[1]]
  ELSE 0

(***************************************************************************)
(* Depot::clone_repo, into the checkout of `project`.                       *)
(***************************************************************************)
\* The steps after update_remote_refs that check out a local branch named
\* after the branch instead of detaching HEAD.
clone_checkout_branch(updated, rc, project, branch) ==
  IF ~updated.ok
  THEN updated
  ELSE
  LET head == parse_revision(updated.wk[project], rc.name, branch)
  IN
  IF head = 0
  THEN [updated EXCEPT !.ok = FALSE]
  ELSE [updated EXCEPT !.wk[project].tree = head, !.wk[project].head = head,
                       !.wk[project].branches = {branch}]

\* The steps of clone_repo after update_remote_refs returned `updated`.
clone_checkout(updated, rc, project, branch) ==
  IF ~updated.ok
  THEN updated
  ELSE
  LET head == parse_revision(updated.wk[project], rc.name, branch)
  IN
  IF head = 0
  THEN [updated EXCEPT !.ok = FALSE]
  ELSE [updated EXCEPT !.wk[project].tree = head, !.wk[project].head = head]

clone_repo(rm, wk, rc, project, branch) ==
  LET wk1 == clone_alternates_nonbare(wk, objects_mirror(project), project)
  IN
  IF wk1[project].remotes[rc.name] # NoRemote
  THEN {[ok |-> FALSE, wk |-> wk1, rd |-> "none", pre |-> NoDir]}
  ELSE
  LET wk2 == [wk1 EXCEPT ![project].remotes[rc.name] =
                [url |-> refs_mirror(rc.name, project), pushurl |-> rc.url \o project]]
  IN {clone_checkout(updated, rc, project, branch) :
        updated \in update_remote_refs(rm, wk2, rc, project)}

(***************************************************************************)
(* State                                                                   *)
(***************************************************************************)
VARIABLES
  objMirror,   \* the depot's object mirrors, by path
  refMirror,   \* the depot's ref mirrors, by path
  work,        \* the working checkouts, by project
  last,        \* the last depot call: its arguments and what it did
  tree,        \* the tree of the working directory, as persisted
  proc,        \* the pore process: its subcommand, its jobs and how it ended
  calls        \* the fetch_repo calls running concurrently, by caller

vars == <<objMirror, refMirror, work, last, tree, proc, calls>>

NoCall == [op |-> "none", remote |-> "a", url |-> NoUrl, project |-> <<>>, branch |-> <<>>,
           depth |-> NoDepth, net |-> NetMissing, ok |-> FALSE, io |-> {},
           transport |-> "none", args |-> NoArgs, rd |-> "none", pre |-> NoDir, err |-> NoError]

\* No tree in the working directory; no process started.
\* `root` is the tree root directory cmd_clone created (NoPath: none) and
\* `exists` says that it holds a tree's state.
NoTree == [exists |-> FALSE, root |-> NoPath, remote |-> "", branch |-> <<>>, filters |-> <<>>]
NoTarget == [remote |-> <<>>, branch |-> <<>>]
NoResult == [kind |-> "none", rc |-> 0, msg |-> "", cause |-> ""]
NoProc == [pc |-> "idle", cmd |-> "", target |-> <<>>, directory |-> <<>>, resolved |-> NoTarget,
           arg |-> <<>>, under |-> <<>>, local |-> FALSE, fetch |-> "NoFetch",
           checkout |-> "NoCheckout",
           jobs |-> [p \in Projects |-> "none"], result |-> NoResult, code |-> 0, stderr |-> <<>>]

\* The callers of concurrent fetch_repo calls, and a caller that has not
\* called yet.  `existed` is what dst.exists() answered in replace_dir and
\* `entries` the rest of the listing read_dir gave it.
Callers == {"t1", "t2"}
NoFetchCall == [pc |-> "idle", branch |-> <<>>, net |-> NetMissing, existed |-> FALSE,
                entries |-> <<>>, ok |-> FALSE]

DepotInit ==
  /\ objMirror = [p \in ObjectPaths |-> NoObjectRepo]
  /\ refMirror = [p \in RefPaths |-> NoRefRepo]
  /\ work = [p \in Projects |-> NoCheckout]
  /\ last = NoCall
  /\ tree = NoTree
  /\ proc = NoProc
  /\ calls = [c \in Callers |-> NoFetchCall]

\* One call of fetch_repo with the given arguments, against a server that
\* answers `net`.
FetchRepo(rc, project, branch, depth, net) ==
  \E r \in fetch_repo(objMirror, refMirror, rc, project, branch, depth, net) :
       /\ objMirror' = r.om
       /\ refMirror' = r.rm
       /\ last' = [op |-> "fetch_repo", remote |-> rc.name, url |-> rc.url, project |-> project,
                   branch |-> branch, depth |-> depth, net |-> net, ok |-> r.ok, io |-> r.io,
                   transport |-> r.transport, args |-> r.args, rd |-> r.rd, pre |-> r.pre,
                   err |-> r.err]
       /\ UNCHANGED <<work, tree, proc, calls>>

\* One call of update_remote_refs.
UpdateRemoteRefs(rc, project) ==
  \E r \in update_remote_refs(refMirror, work, rc, project) :
       /\ work' = r.wk
       /\ last' = [NoCall EXCEPT !.op = "update_remote_refs", !.remote = rc.name, !.url = rc.url,
                                 !.project = project, !.ok = r.ok, !.rd = r.rd, !.pre = r.pre]
       /\ UNCHANGED <<objMirror, refMirror, tree, proc, calls>>

\* One call of clone_repo.
CloneRepo(rc, project, branch) ==
  \E r \in clone_repo(refMirror, work, rc, project, branch) :
       /\ work' = r.wk
       /\ last' = [NoCall EXCEPT !.op = "clone_repo", !.remote = rc.name, !.url = rc.url,
                                 !.project = project, !.branch = branch, !.ok = r.ok, !.rd = r.rd,
                                 !.pre = r.pre]
       /\ UNCHANGED <<objMirror, refMirror, tree, proc, calls>>

\* The server's main moves; its other branches stay at their first commit.
Nets(remote, branch) ==
  {NetDown, NetMissing} \cup
    (IF branch = Main THEN CommitsOf(remote) ELSE {CHOOSE c \in CommitsOf(remote) : \A d \in CommitsOf(remote) : c <= d})
RemoteA == [name |-> "a", url |-> UrlHttps]
RemoteB == [name |-> "b", url |-> UrlSsh]

(***************************************************************************)
(* Spec: one project fetched from remote "a" and checked out.               *)
(***************************************************************************)
Fetch ==
  \E branch \in Branches :
    \E net \in Nets("a", branch) : FetchRepo(RemoteA, ProjP, branch, NoDepth, net)
\* Tracking refs are refreshed in a checkout that exists.
Update == work[ProjP].exists /\ UpdateRemoteRefs(RemoteA, ProjP)
Clone == \E branch \in Branches : CloneRepo(RemoteA, ProjP, branch)

Init == DepotInit
Next == Fetch \/ Update \/ Clone
Spec == Init /\ [][Next]_vars

(***************************************************************************)
(* SpecIso: one project fetched from the two remotes of one depot.          *)
(***************************************************************************)
FetchFrom(rc) ==
  \E branch \in Branches :
    \E net \in Nets(rc.name, branch) : FetchRepo(rc, ProjP, branch, NoDepth, net)
FetchA == FetchFrom(RemoteA)
FetchB == FetchFrom(RemoteB)

NextIso == FetchA \/ FetchB
SpecIso == Init /\ [][NextIso]_vars

(***************************************************************************)
(* SpecArgs: fetch_repo over its arguments: project strings, remote URLs    *)
(* and depths.                                                              *)
(***************************************************************************)
Urls == {UrlHttps, UrlHttp, UrlGit, UrlSsh, UrlFile, UrlScp, UrlPath}
Depths == {NoDepth, <<1>>, <<2>>}
FetchArgs ==
  \E url \in Urls, project \in {ProjP, ProjLead, ProjTrail}, depth \in Depths :
    \E net \in {NetDown, MaxCommit} :
      FetchRepo([name |-> "a", url |-> url], project, Main, depth, net)

NextArgs == FetchArgs
SpecArgs == Init /\ [][NextArgs]_vars

(***************************************************************************)
(* SpecRefs: one project fetched from the two remotes, its checkout cloned  *)
(* from either, and its tracking refs refreshed for either remote, before   *)
(* and after the checkout exists.                                           *)
(***************************************************************************)
FetchRefs ==
  \E rc \in {RemoteA, RemoteB} :
    \E branch \in (IF rc = RemoteA THEN {Main, Dev} ELSE {Main}) :
      \E net \in Nets(rc.name, branch) \ {NetDown, NetMissing} :
        FetchRepo(rc, ProjP, branch, NoDepth, net)
UpdateRefs == \E rc \in {RemoteA, RemoteB} : UpdateRemoteRefs(rc, ProjP)
CloneRefs == \E rc \in {RemoteA, RemoteB} : CloneRepo(rc, ProjP, Main)

NextRefs == FetchRefs \/ UpdateRefs \/ CloneRefs
SpecRefs == Init /\ [][NextRefs]_vars

(***************************************************************************)
(* SpecConc: two callers run fetch_repo(remote "a", project p, a branch)    *)
(* at the same time on one depot.  fetch_repo takes no lock, so the steps   *)
(* of the two calls interleave: each action is one filesystem or network    *)
(* operation of the call of one caller.                                     *)
(***************************************************************************)
ConcObjects == objects_mirror(ProjP)
ConcRefs == refs_mirror(RemoteA.name, ProjP)
Returned(call, ok) == [call EXCEPT !.pc = "returned", !.ok = ok, !.entries = <<>>]

\* The call and its two ensure! on the project.
CallFetch ==
  \E c \in Callers, branch \in {Main, Dev} :
    \E net \in Nets(RemoteA.name, branch) \ {NetDown, NetMissing} :
      /\ calls[c].pc = "idle"
      /\ valid_project(ProjP)
      /\ calls' = [calls EXCEPT ![c] = [NoFetchCall EXCEPT !.pc = "open", !.branch = branch, !.net = net]]
      /\ UNCHANGED <<objMirror, refMirror, work, last, tree, proc>>

\* open_or_create_bare_repo and the remote of the object mirror
OpenObjects ==
  \E c \in Callers :
    /\ calls[c].pc = "open"
    /\ objMirror' = [open_or_create_bare_repo(objMirror, ConcObjects) EXCEPT
                       ![ConcObjects].remotes[RemoteA.name] = RemoteA.url \o ProjP \o DotGit]
    /\ calls' = [calls EXCEPT ![c].pc = "fetch"]
    /\ UNCHANGED <<refMirror, work, last, tree, proc>>

\* remote.fetch(&[branch])
NativeFetch ==
  \E c \in Callers :
    LET fetched == git2_fetch(objMirror[ConcObjects], RemoteA.name, calls[c].branch, calls[c].net)
    IN /\ calls[c].pc = "fetch"
       /\ objMirror' = [objMirror EXCEPT ![ConcObjects] = fetched.repo]
       /\ calls' = [calls EXCEPT ![c] = IF fetched.ok THEN [@ EXCEPT !.pc = "refs"] ELSE Returned(@, FALSE)]
       /\ UNCHANGED <<refMirror, work, last, tree, proc>>

\* Repository::open of the ref mirror, or clone_alternates
OpenRefs ==
  \E c \in Callers :
    /\ calls[c].pc = "refs"
    /\ refMirror' = IF refMirror[ConcRefs].exists THEN refMirror
                    ELSE clone_alternates_bare(refMirror, ConcObjects, ConcRefs)
    /\ calls' = [calls EXCEPT ![c].pc = "ensure"]
    /\ UNCHANGED <<objMirror, work, last, tree, proc>>

\* replace_dir: ensure!(src.exists()) and the test dst.exists()
Ensure ==
  \E c \in Callers :
    /\ calls[c].pc = "ensure"
    /\ calls' = [calls EXCEPT ![c] =
                   IF ~remotes_dir(objMirror[ConcObjects], RemoteA.name).exists
                   THEN Returned(@, FALSE)
                   ELSE [@ EXCEPT !.existed = refMirror[ConcRefs].heads.exists,
                                  !.pc = IF refMirror[ConcRefs].heads.exists THEN "remove" ELSE "create"]]
    /\ UNCHANGED <<objMirror, refMirror, work, last, tree, proc>>

\* replace_dir: remove_dir_all(dst), an error when dst is not there any more
Remove ==
  \E c \in Callers :
    /\ calls[c].pc = "remove"
    /\ IF refMirror[ConcRefs].heads.exists
       THEN /\ refMirror' = [refMirror EXCEPT ![ConcRefs].heads = NoDir]
            /\ calls' = [calls EXCEPT ![c].pc = "create"]
       ELSE /\ calls' = [calls EXCEPT ![c] = Returned(@, FALSE)]
            /\ UNCHANGED refMirror
    /\ UNCHANGED <<objMirror, work, last, tree, proc>>

\* replace_dir: create_dir_all(dst)
Create ==
  \E c \in Callers :
    /\ calls[c].pc = "create"
    /\ refMirror' = [refMirror EXCEPT ![ConcRefs].heads.exists = TRUE]
    /\ calls' = [calls EXCEPT ![c].pc = "list"]
    /\ UNCHANGED <<objMirror, work, last, tree, proc>>

\* replace_dir: read_dir(src)
List ==
  \E c \in Callers :
    \E entries \in read_dir(remotes_dir(objMirror[ConcObjects], RemoteA.name)) :
      /\ calls[c].pc = "list"
      /\ calls' = [calls EXCEPT ![c].pc = "copy", ![c].entries = entries]
      /\ UNCHANGED <<objMirror, refMirror, work, last, tree, proc>>

\* replace_dir: std::fs::copy of the next entry, an error when the entry is
\* not a file or when dst is not there
Copy ==
  \E c \in Callers :
    LET e == Head(calls[c].entries)
        src == remotes_dir(objMirror[ConcObjects], RemoteA.name)
    IN /\ calls[c].pc = "copy"
       /\ calls[c].entries # <<>>
       /\ IF refMirror[ConcRefs].heads.exists /\ src.ents[e] > 0
          THEN /\ refMirror' = [refMirror EXCEPT ![ConcRefs].heads.ents[e] = src.ents[e]]
               /\ calls' = [calls EXCEPT ![c].entries = Tail(@)]
          ELSE /\ calls' = [calls EXCEPT ![c] = Returned(@, FALSE)]
               /\ UNCHANGED refMirror
       /\ UNCHANGED <<objMirror, work, last, tree, proc>>

\* replace_dir and fetch_repo return Ok(())
Return ==
  \E c \in Callers :
    /\ calls[c].pc = "copy"
    /\ calls[c].entries = <<>>
    /\ calls' = [calls EXCEPT ![c] = Returned(@, TRUE)]
    /\ UNCHANGED <<objMirror, refMirror, work, last, tree, proc>>

NextConc ==
  CallFetch \/ OpenObjects \/ NativeFetch \/ OpenRefs \/ Ensure \/ Remove \/ Create \/ List \/ Copy
    \/ Return
SpecConc == Init /\ [][NextConc]_vars

(***************************************************************************)
(* The command line (main.rs).  A command-line string is the sequence of    *)
(* its tokens: a separator character (',', '/', '-') or a word without any. *)
(***************************************************************************)
\* str::split(sep): the pieces between the separators, empty ones included.
RECURSIVE split(_, _)
split(s, sep) ==
  IF \E i \in 1..Len(s) : s[i] = sep
  THEN LET i == CHOOSE k \in 1..Len(s) : s[k] = sep /\ \A j \in 1..(k - 1) : s[j] # sep
       IN <<SubSeq(s, 1, i - 1)>> \o split(SubSeq(s, i + 1, Len(s)), sep)
  ELSE <<s>>

Ok(rc) == [kind |-> "ok", rc |-> rc, msg |-> "", cause |-> ""]
Err(msg, cause) == [kind |-> "err", rc |-> 0, msg |-> msg, cause |-> cause]

\* parse_target taking the first two pieces of a target with more.
parse_target_lenient(target) ==
  LET vec == split(target, "/")
  IN IF Len(vec) = 1 THEN [ok |-> TRUE, remote |-> vec[1], branch |-> <<"master">>]
     ELSE [ok |-> TRUE, remote |-> vec[1], branch |-> vec[2]]

\* parse_target: <remote>[/<branch>], the branch defaulting to master.
parse_target(target) ==
  LET vec == split(target, "/")
  IN IF Len(vec) = 1 THEN [ok |-> TRUE, remote |-> vec[1], branch |-> <<"master">>]
     ELSE IF Len(vec) = 2 THEN [ok |-> TRUE, remote |-> vec[1], branch |-> vec[2]]
     ELSE [ok |-> FALSE, remote |-> <<>>, branch |-> <<>>]

\* The group filters of cmd_clone that keep the '-' of an excluded group.
parse_group_filters_dash(arg) ==
  IF arg = <<>> THEN <<>>
  ELSE LET items == split(arg[1], ",")
       IN [i \in 1..Len(items) |->
             IF starts_with(items[i], "-") THEN [kind |-> "Exclude", group |-> items[i]]
             ELSE [kind |-> "Include", group |-> items[i]]]

\* The group filters of cmd_clone: `arg` is the option, <<>> when absent and
\* <<string>> when given.
parse_group_filters(arg) ==
  IF arg = <<>> THEN <<>>
  ELSE LET items == split(arg[1], ",")
       IN [i \in 1..Len(items) |->
             IF starts_with(items[i], "-") THEN [kind |-> "Exclude", group |-> Tail(items[i])]
             ELSE [kind |-> "Include", group |-> items[i]]]

\* The manifest: every project is on remote "a"; their groups.
GroupX == <<"x">>
GroupY == <<"y">>
GroupsOf(project) ==
  IF project = ProjP THEN {GroupX, GroupY} ELSE IF project = ProjQ THEN {GroupX} ELSE {}

\* Tree: a project is eligible when no Exclude filter names one of its groups
\* and there is no Include filter or one of them names one of its groups.
eligible(groups, filters) ==
  LET excludes == {filters[i].group : i \in {j \in 1..Len(filters) : filters[j].kind = "Exclude"}}
      includes == {filters[i].group : i \in {j \in 1..Len(filters) : filters[j].kind = "Include"}}
  IN /\ excludes \cap groups = {}
     /\ includes = {} \/ includes \cap groups # {}

\* The manifest: the checkout path of each project, relative to the tree's
\* root, as the sequence of its components.
PathA == <<"a">>
PathAB == <<"a", "b">>
PathC == <<"c">>
PathOf(project) == IF project = ProjP THEN PathA ELSE IF project = ProjQ THEN PathAB ELSE PathC

\* The path scope that selects a project only at one of the paths given.
in_scope_exact(path, under) == under = <<>> \/ \E i \in 1..Len(under) : under[i] = path

\* Tree: a checkout path is in scope when no path was given (`under` is
\* <<>>: clap's values_of is None without a value, never an empty list) or
\* when it is one of the paths given or nested under one of them.
in_scope(path, under) ==
  \/ under = <<>>
  \/ \E i \in 1..Len(under) :
       Len(under[i]) <= Len(path) /\ SubSeq(path, 1, Len(under[i])) = under[i]

\* Tree::sync: the projects it runs a job for.
operative(filters, under) ==
  {p \in Projects : eligible(GroupsOf(p), filters) /\ in_scope(PathOf(p), under)}

\* Tree::sync, the fetch of one project's job.
job_fetch(om, rm, rc, project, branch, fetch_type, net) ==
  IF fetch_type = "NoFetch" THEN {[ok |-> TRUE, om |-> om, rm |-> rm]}
  ELSE {[ok |-> r.ok, om |-> r.om, rm |-> r.rm] :
          r \in fetch_repo(om, rm, rc, project, branch, NoDepth, net)}

\* Tree::sync, the refresh of an existing checkout: its tracking refs, then
\* its files and HEAD at the branch's new head.
refresh_checkout(updated, rc, project, branch) ==
  LET head == parse_revision(updated.wk[project], rc.name, branch)
  IN IF ~updated.ok THEN [ok |-> FALSE, wk |-> updated.wk]
     ELSE IF head = 0 THEN [ok |-> FALSE, wk |-> updated.wk]
     ELSE [ok |-> TRUE, wk |-> [updated.wk EXCEPT ![project].tree = head, ![project].head = head]]

\* Tree::sync, the checkout of one project's job: a full checkout of a new
\* project, a refresh of an existing one.
job_checkout(rm, wk, rc, project, branch, checkout_type) ==
  IF checkout_type = "NoCheckout" THEN {[ok |-> TRUE, wk |-> wk]}
  ELSE IF ~wk[project].exists
  THEN {[ok |-> r.ok, wk |-> r.wk] : r \in clone_repo(rm, wk, rc, project, branch)}
  ELSE {refresh_checkout(r, rc, project, branch) : r \in update_remote_refs(rm, wk, rc, project)}

\* Tree::sync's result: 0 when every job succeeded.
JobFailed(status) == status \in {"fetch failed", "checkout failed", "command failed"}
sync_result(jobs) == IF \E p \in Projects : JobFailed(jobs[p]) THEN Ok(1) ELSE Ok(0)

\* cmd_sync dropping the code of tree.sync.
cmd_sync_zero(synced) == IF synced.kind = "ok" THEN Ok(0) ELSE synced

\* cmd_sync and cmd_clone return what tree.sync returns.
cmd_sync(synced) == synced

\* The fatal! macro: a line on standard error, exit(1).
fatal(msg) == [code |-> 1, stderr |-> <<"fatal: ", msg>>]

\* The end of main: exit(rc) on Ok(rc); on an error a line on standard error,
\* after which main returns.
main_exit(result) ==
  IF result.kind = "ok" THEN [code |-> result.rc, stderr |-> <<>>]
  ELSE [code |-> 0,
        stderr |-> IF result.cause # "" THEN <<"fatal: ", result.msg, ": ", result.cause>>
                   ELSE <<"fatal: ", result.msg>>]

TargetMain == <<"a", "/", "main">>
TargetDeep == <<"a", "/", "main", "/", "x">>
TargetBare == <<"a">>
Targets == {TargetMain, TargetDeep, TargetBare}
\* The DIRECTORY of clone: absent, or the directory d; init's is ".".
DirD == <<"d">>
DirDot == <<".">>
Directories(cmd) == IF cmd = "init" THEN {<<DirDot>>} ELSE {<<>>, <<DirD>>}
FilterArgs == {<<>>, <<<<"x", ",", "-", "y">>>>, <<<<"x">>>>, <<<<"-", "y">>>>, <<<<>>>>}
PathArgs == {<<>>, <<PathA>>, <<PathAB, PathC>>}
ForallPathArgs == {<<>>, <<PathA>>}

Exit(p, result) ==
  LET e == main_exit(result)
  IN [p EXCEPT !.pc = "exited", !.result = result, !.code = e.code, !.stderr = e.stderr]
Begin(cmd, arg) == [NoProc EXCEPT !.cmd = cmd, !.arg = arg]
CanStart == proc.pc \in {"idle", "exited"}

\* cmd_clone fetching whether or not -l was given.
clone_fetch_type_always(local) == "FetchExceptManifest"

\* The fetch type of cmd_clone, whose `fetch` is !is_present("LOCAL"): the
\* manifest was fetched by Tree::construct.
clone_fetch_type(local) == IF ~local THEN "FetchExceptManifest" ELSE "NoFetch"

\* The fetch and checkout types main gives cmd_sync for fetch and for sync.
sync_fetch_type(cmd, local) ==
  IF cmd = "fetch" THEN "Fetch" ELSE IF local THEN "NoFetch" ELSE "Fetch"
sync_checkout_type(cmd) == IF cmd = "fetch" THEN "NoCheckout" ELSE "Checkout"

\* pore clone / pore init: cmd_clone up to the start of the jobs of tree.sync.
\* `constructed` says whether Tree::construct succeeds, which it cannot for a
\* branch the remote does not serve.
StartClone ==
  \E cmd \in {"clone", "init"}, target \in Targets, arg \in FilterArgs, local \in BOOLEAN,
     constructed \in BOOLEAN :
   \E directory \in Directories(cmd) :
    LET parsed == parse_target(target)
        tree_root == IF directory = <<>> THEN parsed.branch ELSE directory[1]
        filters == parse_group_filters(arg)
        fetch_type == clone_fetch_type(local)
        begun == [Begin(cmd, arg) EXCEPT !.target = target, !.directory = directory,
                                         !.local = local]
        resolved == [begun EXCEPT !.resolved = [remote |-> parsed.remote, branch |-> parsed.branch]]
    IN /\ CanStart
       /\ ~tree.exists
       /\ IF ~parsed.ok
          THEN /\ proc' = Exit(begun, Err("invalid target", ""))
               /\ UNCHANGED tree
          ELSE IF ~constructed \/ parsed.branch \notin Branches
          THEN /\ proc' = Exit(resolved, Err("failed to construct tree", "failed to fetch"))
               /\ tree' = [tree EXCEPT !.root = tree_root]
          ELSE /\ tree' = [exists |-> TRUE, root |-> tree_root, remote |-> parsed.remote[1],
                           branch |-> parsed.branch, filters |-> filters]
               /\ proc' = [resolved EXCEPT
                             !.pc = "jobs", !.fetch = fetch_type, !.checkout = "Checkout",
                             !.jobs = [p \in Projects |->
                                         IF p \in operative(filters, <<>>) THEN "queued" ELSE "none"]]
       /\ UNCHANGED <<objMirror, refMirror, work, last, calls>>

\* pore sync / pore fetch: Tree::find_from_path, then cmd_sync up to the start
\* of the jobs of tree.sync.
StartSync ==
  \E cmd \in {"sync", "fetch"}, local \in BOOLEAN, sync_under \in PathArgs :
    LET fetch_type == sync_fetch_type(cmd, local)
        checkout_type == sync_checkout_type(cmd)
        begun == [Begin(cmd, <<>>) EXCEPT !.local = local]
    IN /\ CanStart
       /\ cmd = "fetch" => ~local
       /\ IF ~tree.exists
          THEN proc' = Exit(begun, Err("failed to find tree", ""))
          ELSE proc' = [begun EXCEPT
                          !.pc = "jobs", !.under = sync_under,
                          !.fetch = fetch_type, !.checkout = checkout_type,
                          !.jobs = [p \in Projects |->
                                      IF p \in operative(tree.filters, sync_under)
                                      THEN "queued" ELSE "none"]]
       /\ UNCHANGED <<objMirror, refMirror, work, last, tree, calls>>

\* pore forall / pore status: Tree::find_from_path, then a job for every
\* project in scope.
StartForall ==
  \E cmd \in {"forall", "status"}, under \in ForallPathArgs :
    /\ CanStart
    /\ IF ~tree.exists
       THEN proc' = Exit(Begin(cmd, <<>>), Err("failed to find tree", ""))
       ELSE proc' = [Begin(cmd, <<>>) EXCEPT
                       !.pc = "jobs", !.under = under,
                       !.jobs = [p \in Projects |->
                                   IF in_scope(PathOf(p), under) THEN "queued" ELSE "none"]]
    /\ UNCHANGED <<objMirror, refMirror, work, last, tree, calls>>

\* pore upload: unimplemented_subcommand.
StartUpload ==
  /\ CanStart
  /\ proc' = [Begin("upload", <<>>) EXCEPT !.pc = "exited", !.code = fatal("unimplemented subcommand upload").code,
                                           !.stderr = fatal("unimplemented subcommand upload").stderr]
  /\ UNCHANGED <<objMirror, refMirror, work, last, tree, calls>>

\* pore config
StartConfig ==
  /\ CanStart
  /\ proc' = Exit(Begin("config", <<>>), Ok(0))
  /\ UNCHANGED <<objMirror, refMirror, work, last, tree, calls>>

\* One job of tree.sync, run by a worker of the pool: the fetch, then the
\* checkout when the fetch did not fail.
RunJob(p) ==
  /\ proc.pc = "jobs"
  /\ proc.cmd \in {"clone", "init", "sync", "fetch"}
  /\ proc.jobs[p] = "queued"
  /\ \E net \in {NetDown, MaxCommit} :
       \E f \in job_fetch(objMirror, refMirror, RemoteA, p, tree.branch, proc.fetch, net) :
         /\ objMirror' = f.om
         /\ refMirror' = f.rm
         /\ IF ~f.ok
            THEN /\ proc' = [proc EXCEPT !.jobs[p] = "fetch failed"]
                 /\ UNCHANGED work
            ELSE \E c \in job_checkout(f.rm, work, RemoteA, p, tree.branch, proc.checkout) :
                   /\ work' = c.wk
                   /\ proc' = [proc EXCEPT !.jobs[p] = IF c.ok THEN "done" ELSE "checkout failed"]
  /\ UNCHANGED <<last, tree, calls>>
Job == \E p \in Projects : RunJob(p)

\* One job of tree.forall or tree.status: the command run in the project's
\* checkout, which may fail, or the project's status, which is only read.
RunCommand(p) ==
  /\ proc.pc = "jobs"
  /\ proc.cmd \in {"forall", "status"}
  /\ proc.jobs[p] = "queued"
  /\ \E succeeded \in BOOLEAN :
       /\ proc.cmd = "status" => succeeded
       /\ proc' = [proc EXCEPT !.jobs[p] = IF succeeded THEN "done" ELSE "command failed"]
  /\ UNCHANGED <<objMirror, refMirror, work, last, tree, calls>>
Command == \E p \in Projects : RunCommand(p)

\* The pool is drained: tree.sync returns, and main exits with its result.
Finish ==
  /\ proc.pc = "jobs"
  /\ \A p \in Projects : proc.jobs[p] # "queued"
  /\ proc' = Exit(proc, cmd_sync(sync_result(proc.jobs)))
  /\ UNCHANGED <<objMirror, refMirror, work, last, tree, calls>>

NextCli ==
  StartClone \/ StartSync \/ StartForall \/ StartUpload \/ StartConfig \/ Job \/ Command \/ Finish
SpecCli == Init /\ [][NextCli]_vars

(***************************************************************************)
(* Properties of the depot                                                 *)
(***************************************************************************)
\* The two directories of the last call's replace_dir, as the call left them.
LastObjects == objMirror[objects_mirror(last.project)]
LastHeads == refMirror[refs_mirror(last.remote, last.project)].heads
LastCheckoutRefs == work[last.project][git_path(work[last.project])][last.remote]
LastSrc == IF last.op = "fetch_repo" THEN remotes_dir(LastObjects, last.remote) ELSE LastHeads
LastDst == IF last.op = "fetch_repo" THEN LastHeads ELSE LastCheckoutRefs
FetchSucceeded == last.op = "fetch_repo" /\ last.ok

\* C1: a fetch_repo call whose project starts or ends with '/' returns an
\* error and performs no filesystem or network operation: the object mirrors,
\* their remotes and refs, the ref mirrors and the checkouts are as before.
C1_InvalidProjectNoIO ==
  [][(last'.op = "fetch_repo" /\ (starts_with(last'.project, "/") \/ ends_with(last'.project, "/"))) =>
       /\ ~last'.ok
       /\ last'.io = {}
       /\ last'.transport = "none"
       /\ UNCHANGED <<objMirror, refMirror, work, tree, proc>>]_vars

\* A call with project "p/" was rejected, in a depot that holds a mirror of p.
C1_Witness ==
  /\ last.op = "fetch_repo"
  /\ last.project = ProjTrail
  /\ ~last.ok
  /\ last.io = {}
  /\ objMirror[objects_mirror(ProjP)].exists

\* C2: after any sequence of fetches of one project from remotes a and b, the
\* ref mirror of each remote holds only heads fetched from that remote: every
\* head in refs/a/<project>.git is a commit a's server served, never one of
\* b's, and likewise for b.
C2_RefMirrorIsolation ==
  \A r \in RemoteNames, e \in Entries :
    LET heads == refMirror[refs_mirror(r, ProjP)].heads
    IN heads.ents[e] # 0 => heads.ents[e] \in CommitsOf(r)

\* Remote b was fetched last, successfully, and both ref mirrors hold a head
\* of main.
C2_Witness ==
  /\ FetchSucceeded
  /\ last.remote = "b"
  /\ refMirror[refs_mirror("a", ProjP)].heads.ents["main"] \in CommitsOf("a")
  /\ refMirror[refs_mirror("b", ProjP)].heads.ents["main"] = CommitB

\* C9: the scheme the claim speaks of: that of url + project + ".git", or
\* none when the string has no scheme.
SchemeOf(url, project) ==
  LET parsed == url_parse(url \o project \o DotGit)
  IN IF parsed.ok THEN parsed.scheme ELSE SchemeNone
ClaimedNative(l) ==
  /\ SchemeOf(l.url, l.project) \in {SchemeGit, SchemeHttp, SchemeHttps, SchemeSsh, SchemeNone}
  /\ l.depth = NoDepth

\* C9: a fetch_repo call with a valid project fetches natively iff the scheme
\* is git, http, https, ssh or absent and no depth was given, and runs the
\* external git with `fetch <remote> <branch> --no-tags [--depth N]` in every
\* other case.
C9_TransportSelection ==
  (last.op = "fetch_repo" /\ valid_project(last.project)) =>
    /\ ClaimedNative(last) => last.transport = "git2"
    /\ ~ClaimedNative(last) =>
         /\ last.transport = "git"
         /\ last.args = <<"-C", objects_mirror(last.project), "fetch", last.remote, last.branch, "--no-tags">>
                          \o (IF last.depth = NoDepth THEN <<>>
                              ELSE <<"--depth", i32_to_string(last.depth[1])>>)

\* C3: when fetch_repo returns success, the ref mirror exists and its
\* refs/heads holds exactly the direct entries of the object mirror's
\* refs/remotes/<remote>, with equal contents.
C3_HeadsEqualRemotesDir ==
  FetchSucceeded =>
    /\ refMirror[refs_mirror(last.remote, last.project)].exists
    /\ LastHeads.exists
    /\ \A e \in Entries : LastHeads.ents[e] = remotes_dir(LastObjects, last.remote).ents[e]

\* A successful fetch that left two heads in the ref mirror, one of them moved
\* to the server's second commit.
C3_Witness ==
  /\ FetchSucceeded
  /\ LastHeads.ents["main"] = MaxCommit
  /\ LastHeads.ents["dev"] # 0
  /\ last.pre.ents["main"] = 1

\* C4 as stated: after a successful fetch_repo the ref mirror's refs/heads
\* holds the head that fetch obtained and no head of an earlier fetch.
C4_OnlyJustFetched ==
  FetchSucceeded =>
    \A e \in Entries : LastHeads.ents[e] # 0 => (<<e>> = last.branch /\ LastHeads.ents[e] = last.net)

\* C4 as amended: a successful fetch_repo of one branch leaves in refs/heads
\* the head it fetched (when the server has the branch) and, unchanged, every
\* head the object mirror held for that remote before the call.
C4_KeepsEarlierHeads ==
  [][(last'.op = "fetch_repo" /\ last'.ok) =>
       \A e \in Entries :
         LastHeads'.ents[e] =
           IF <<e>> = last'.branch /\ last'.net > 0 THEN last'.net
           ELSE IF <<e>> \in Branches
                THEN objMirror[objects_mirror(last'.project)].tracking[last'.remote][<<e>>]
                ELSE 0]_vars

\* A successful fetch of dev whose ref mirror still holds main, left by an
\* earlier fetch.
C4_Witness ==
  /\ FetchSucceeded
  /\ last.branch = Dev
  /\ last.net > 0
  /\ LastHeads.ents["dev"] = last.net
  /\ LastHeads.ents["main"] # 0

\* C5: whatever the destination held (nothing, stale entries, the rest of a
\* failed replace), a replace_dir that succeeds leaves it holding the source's
\* entries with the source's contents; two successful calls in a row with the
\* same source contents leave the same destination contents.
C5_ReplaceConverges ==
  [][last'.rd = "ok" =>
       /\ LastDst' = [exists |-> TRUE, ents |-> LastSrc'.ents]
       /\ (last.rd = "ok" /\ LastSrc'.ents = LastSrc.ents) => LastDst'.ents = LastDst.ents]_vars

\* A successful replace_dir whose destination held an entry the source does
\* not have.
C5_Witness ==
  /\ last.rd = "ok"
  /\ \E e \in Entries : last.pre.ents[e] # 0 /\ LastSrc.ents[e] = 0
  /\ LastDst.ents = LastSrc.ents

\* C6 as stated: replace_dir with an empty source directory returns an error.
C6_EmptySourceRejected ==
  (last.rd # "none" /\ LastSrc.exists /\ Present(LastSrc) = {}) => last.rd = "failed"

\* C6 as amended: replace_dir rejects a source that does not exist, leaving
\* the destination as it was; a source that exists and is empty is accepted
\* and the destination becomes an existing empty directory.
C6_MissingSourceRejected ==
  /\ (last.rd # "none" /\ ~LastSrc.exists) => (last.rd = "failed" /\ LastDst = last.pre)
  /\ (last.rd # "none" /\ LastSrc.exists /\ Present(LastSrc) = {}) =>
       (last.rd = "ok" /\ LastDst = EmptyDir)

\* A replace_dir that emptied a destination holding a ref, from an empty source.
C6_Witness ==
  /\ last.rd = "ok"
  /\ LastSrc = EmptyDir
  /\ Present(last.pre) # {}
  /\ LastDst = EmptyDir

\* C12: every ref mirror and every working checkout that exists has its
\* alternates file at objects/info/alternates (bare) or
\* .git/objects/info/alternates (non-bare), holding the path of the objects
\* directory of the project's object mirror and one newline, and has no object
\* in its own object store.
C12_Alternates ==
  /\ \A r \in RemoteNames, p \in Projects :
       LET mirror == refMirror[refs_mirror(r, p)]
       IN mirror.exists =>
            /\ mirror.alternates_path = <<"objects", "info", "alternates">>
            /\ mirror.alternates = <<"objects", p \o DotGit, "objects", "\n">>
            /\ mirror.objects = {}
  /\ \A p \in Projects :
       work[p].exists =>
         /\ work[p].alternates_path = <<".git", "objects", "info", "alternates">>
         /\ work[p].alternates = <<"objects", p \o DotGit, "objects", "\n">>
         /\ work[p].objects = {}

\* A project whose ref mirror was created by a fetch and whose checkout was
\* created by clone_repo and is checked out.
C12_Witness ==
  /\ refMirror[refs_mirror("a", ProjP)].exists
  /\ work[ProjP].exists
  /\ work[ProjP].head = MaxCommit
  /\ last.op = "clone_repo"
  /\ last.ok

CloneSucceeded == last.op = "clone_repo" /\ last.ok

\* C13 as stated: after a successful clone_repo the checkout has a remote
\* named after the remote config, whose fetch URL is the path of the ref
\* mirror refs/<remote>/<project>.git and whose push URL is the URL that
\* fetch_repo configured on the object mirror for that remote and project.
C13_CloneRemoteUrls ==
  CloneSucceeded =>
    LET remote == work[last.project].remotes[last.remote]
    IN /\ remote.url = <<"refs", last.remote, last.project \o DotGit>>
       /\ remote.pushurl = LastObjects.remotes[last.remote]
       /\ remote.pushurl = last.url \o last.project \o DotGit

\* C14: a clone_repo that succeeds has replaced the checkout's tracking refs
\* by the ref mirror's heads, and leaves HEAD detached and the files checked
\* out at the commit the ref mirror's heads hold for the branch, with no local
\* branch; a clone_repo that fails at any step leaves HEAD, the files and the
\* local branches as they were.
C14_CloneSteps ==
  [][last'.op = "clone_repo" =>
       LET p == last'.project
           heads == refMirror[refs_mirror(last'.remote, p)].heads
       IN IF last'.ok
          THEN /\ last'.rd = "ok"
               /\ work'[p].tracking[last'.remote] = heads
               /\ Len(last'.branch) = 1
               /\ heads.ents[last'.branch[1]] > 0
               /\ work'[p].head = heads.ents[last'.branch[1]]
               /\ work'[p].tree = work'[p].head
               /\ work'[p].branches = {}
          ELSE /\ work'[p].head = work[p].head
               /\ work'[p].tree = work[p].tree
               /\ work'[p].branches = work[p].branches]_vars

\* A successful clone_repo of dev, whose HEAD is at dev's commit while the
\* tracking refs copied from the ref mirror also hold main at another commit.
C14_Witness ==
  /\ CloneSucceeded
  /\ last.branch = Dev
  /\ work[ProjP].head = 1
  /\ work[ProjP].tracking["a"].ents["main"] = MaxCommit
  /\ work[ProjP].branches = {}

\* C16: update_remote_refs changes nothing but the directory
\* refs/remotes/<remote> of the checkout's git directory, which is <path>/.git
\* when that exists and <path> otherwise: the other checkouts, and this one's
\* files, HEAD, local branches, configuration, alternates and the refs of its
\* other remotes are as before, and so are the ref and object mirrors.
C16_UpdateFrame ==
  [][last'.op = "update_remote_refs" =>
       LET p == last'.project
           dir == IF work[p].exists THEN "tracking" ELSE "stray"
       IN /\ UNCHANGED <<objMirror, refMirror>>
          /\ \A q \in Projects \ {p} : work'[q] = work[q]
          /\ work'[p] = [work[p] EXCEPT ![dir][last'.remote] = work'[p][dir][last'.remote]]]_vars

\* An update_remote_refs for remote "a" that moved main in a checkout whose
\* HEAD stays at the earlier commit and which also tracks remote "b".
C16_Witness ==
  /\ last.op = "update_remote_refs"
  /\ last.ok
  /\ last.remote = "a"
  /\ work[ProjP].exists
  /\ work[ProjP].head = 1
  /\ work[ProjP].tracking["a"].ents["main"] = MaxCommit
  /\ last.pre.ents["main"] = 1
  /\ work[ProjP].tracking["b"].ents["main"] = CommitB

\* C17 as stated: when two concurrent fetch_repo calls for the same remote
\* and project have both returned, both succeeded and the ref mirror's
\* refs/heads holds exactly the entries of the object mirror's
\* refs/remotes/<remote>.
C17_ConcurrentFetches ==
  (\A c \in Callers : calls[c].pc = "returned") =>
    /\ \A c \in Callers : calls[c].ok
    /\ refMirror[ConcRefs].heads =
         [exists |-> TRUE, ents |-> remotes_dir(objMirror[ConcObjects], RemoteA.name).ents]

FetchAttempted == last.op = "fetch_repo" /\ last.transport # "none"
FetchStepFailed ==
  /\ FetchAttempted
  /\ \/ last.net = NetDown
     \/ last.transport = "git" /\ last.net = NetMissing
     \/ last.err = FailedToSpawn

\* C18: a fetch_repo whose fetch step fails (the server cannot be reached,
\* the external git cannot be spawned or exits unsuccessfully) returns an
\* error, which for an unsuccessful git holds what git wrote on its standard
\* error, and leaves every ref mirror as it was before the call: none is
\* created and no refs/heads is replaced.
C18_FetchFailureKeepsRefs ==
  [][FetchStepFailed' =>
       /\ ~last'.ok
       /\ refMirror' = refMirror
       /\ last'.rd = "none"
       /\ last'.err = IF last'.transport = "git2" THEN FailedToFetch
                      ELSE IF "stderr" \in {last'.err[i] : i \in 1..Len(last'.err)}
                           THEN <<"git fetch failed: ", "stderr">>
                           ELSE <<"failed to spawn git fetch">>]_vars

\* An external git that exited unsuccessfully in a depot whose ref mirror
\* holds main from an earlier fetch: the error holds git's standard error and
\* the ref mirror still holds main.
C18_Witness ==
  /\ FetchStepFailed
  /\ last.transport = "git"
  /\ last.err = GitFetchFailed
  /\ refMirror[refs_mirror("a", ProjP)].exists
  /\ refMirror[refs_mirror("a", ProjP)].heads.ents["main"] = MaxCommit

\* C19: a replace_dir whose source directory does not exist returns an error
\* and leaves its destination as it found it; so an update_remote_refs or a
\* clone_repo for a remote whose ref mirror of the project does not exist
\* fails and leaves every remote-tracking ref of the checkout as it was.
C19_MissingSourceKeepsRefs ==
  [][/\ (last'.rd # "none" /\ ~LastSrc'.exists) =>
          (~last'.ok /\ last'.rd = "failed" /\ LastDst' = last'.pre)
     /\ (/\ last'.op \in {"update_remote_refs", "clone_repo"}
         /\ ~refMirror[refs_mirror(last'.remote, last'.project)].exists) =>
          /\ ~last'.ok
          /\ \A r \in RemoteNames :
               /\ work'[last'.project].tracking[r] = work[last'.project].tracking[r]
               /\ work'[last'.project].stray[r] = work[last'.project].stray[r]]_vars

\* A clone_repo from remote "b", whose ref mirror was never fetched, in a
\* checkout that tracks main of remote "a": it failed in replace_dir and the
\* checkout still tracks main.
C19_Witness ==
  /\ last.op = "clone_repo"
  /\ last.remote = "b"
  /\ last.rd = "failed"
  /\ ~refMirror[refs_mirror("b", ProjP)].exists
  /\ work[ProjP].tracking["a"].ents["main"] = MaxCommit
  /\ ~work[ProjP].tracking["b"].exists

\* C20: a replace_dir whose source holds a subdirectory (the first component
\* of a branch name with a '/') returns an error, and leaves the destination
\* an existing directory that holds nothing but copies of files of the source
\* (those copied before the failure): what the destination held before the
\* call is gone, and the subdirectory is never copied.
C20_PartialReplace ==
  [][(last'.rd # "none" /\ LastSrc'.exists /\ \E e \in Entries : LastSrc'.ents[e] = IsDir) =>
       /\ last'.rd = "failed"
       /\ ~last'.ok
       /\ LastDst'.exists
       /\ \A e \in Entries :
            \/ LastDst'.ents[e] = 0
            \/ LastDst'.ents[e] > 0 /\ LastDst'.ents[e] = LastSrc'.ents[e]]_vars

\* A failed replace_dir whose destination held main before the call and holds
\* nothing after it, the source holding main, at another commit, and the
\* subdirectory rel.
C20_Witness ==
  /\ last.rd = "failed"
  /\ LastSrc.ents["rel"] = IsDir
  /\ LastSrc.ents["main"] = MaxCommit
  /\ last.pre.ents["main"] = 1
  /\ LastDst = EmptyDir

(***************************************************************************)
(* Properties of the command line                                          *)
(***************************************************************************)
SyncCommands == {"clone", "init", "sync", "fetch"}
SyncReturned == proc.pc = "exited" /\ proc.cmd \in SyncCommands /\ proc.result.kind = "ok"
JobsStarted == proc.cmd \in SyncCommands /\ (proc.pc = "jobs" \/ SyncReturned)
MainHead(project) == refMirror[refs_mirror(tree.remote, project)].heads.ents["main"]

\* C7: when a sync call has returned, every operative project's job has run
\* to completion whatever became of the others; the checkout of every project
\* whose job succeeded is at the head its ref mirror holds for the branch; and
\* the exit code is nonzero exactly when some job failed.
C7_FanOutIsolation ==
  SyncReturned =>
    /\ \A p \in Projects :
         IF p \in operative(tree.filters, proc.under)
         THEN proc.jobs[p] = "done" \/ JobFailed(proc.jobs[p])
         ELSE proc.jobs[p] = "none"
    /\ \A q \in Projects :
         (proc.jobs[q] = "done" /\ proc.checkout = "Checkout") =>
           /\ work[q].exists
           /\ work[q].head > 0
           /\ work[q].head = MainHead(q)
           /\ work[q].tree = work[q].head
    /\ (proc.code # 0) <=> (\E p \in Projects : JobFailed(proc.jobs[p]))

\* A sync call that returned after P's fetch failed and Q's job succeeded: Q's
\* checkout is at the fetched head, and the exit code is not 0.
C7_Witness ==
  /\ SyncReturned
  /\ proc.fetch # "NoFetch"
  /\ proc.checkout = "Checkout"
  /\ proc.jobs[ProjP] = "fetch failed"
  /\ proc.jobs[ProjQ] = "done"
  /\ work[ProjQ].head = MaxCommit
  /\ ~work[ProjP].exists
  /\ proc.code # 0

\* C8 as stated: a process whose subcommand returned Ok(rc) exits with rc; one
\* whose subcommand returned an error has printed the line "fatal: <message>:
\* <root cause>", or "fatal: <message>" without a cause, on standard error and
\* exits with a code other than 0.
C8_ExitCodes ==
  proc.pc = "exited" =>
    /\ proc.result.kind = "ok" => proc.code = proc.result.rc /\ proc.stderr = <<>>
    /\ proc.result.kind = "err" =>
         /\ proc.code # 0
         /\ proc.stderr = IF proc.result.cause # ""
                          THEN <<"fatal: ", proc.result.msg, ": ", proc.result.cause>>
                          ELSE <<"fatal: ", proc.result.msg>>

FilterXNotY == <<<<"x", ",", "-", "y">>>>
Include(group) == [kind |-> "Include", group |-> group]
Exclude(group) == [kind |-> "Exclude", group |-> group]
Scheduled == {p \in Projects : proc.jobs[p] # "none"}
CloneStarted == JobsStarted /\ proc.cmd \in {"clone", "init"}

\* C10: the jobs of a sync call are those of the projects none of whose groups
\* an Exclude filter names and, when there is an Include filter, one of whose
\* groups an Include filter names: under [Include(x), Exclude(y)] the project
\* tagged {x} only, under no filter every project.  The filters of a clone
\* are the items of its filter string between the ',': Exclude(rest) for an
\* item that starts with '-', Include(item) for any other.
C10_GroupFilters ==
  /\ JobsStarted =>
       LET F == tree.filters
           named(kind, p) == \E i \in 1..Len(F) : F[i].kind = kind /\ F[i].group \in GroupsOf(p)
       IN /\ \A p \in Projects :
               p \in Scheduled <=>
                 /\ in_scope(PathOf(p), proc.under)
                 /\ ~named("Exclude", p)
                 /\ (\A i \in 1..Len(F) : F[i].kind # "Include") \/ named("Include", p)
          /\ (F = <<Include(GroupX), Exclude(GroupY)>> /\ proc.under = <<>>) => Scheduled = {ProjQ}
          /\ (F = <<>> /\ proc.under = <<>>) => Scheduled = Projects
  /\ CloneStarted =>
       /\ proc.arg = <<>> => tree.filters = <<>>
       /\ proc.arg = FilterXNotY => tree.filters = <<Include(GroupX), Exclude(GroupY)>>
       /\ proc.arg = <<<<"x">>>> => tree.filters = <<Include(GroupX)>>
       /\ proc.arg = <<<<"-", "y">>>> => tree.filters = <<Exclude(GroupY)>>
       /\ proc.arg = <<<<>>>> => tree.filters = <<Include(<<>>)>>

\* A clone given the filter string "x,-y" that has queued the job of the
\* project tagged {x} and no other.
C10_Witness ==
  /\ proc.pc = "jobs"
  /\ proc.cmd = "clone"
  /\ proc.arg = FilterXNotY
  /\ tree.filters = <<Include(GroupX), Exclude(GroupY)>>
  /\ proc.jobs = [p \in Projects |-> IF p = ProjQ THEN "queued" ELSE "none"]

TreeCommands == SyncCommands \cup {"forall", "status"}
TreeJobsStarted ==
  /\ proc.cmd \in TreeCommands
  /\ proc.pc = "jobs" \/ (proc.pc = "exited" /\ proc.result.kind = "ok")

\* C11: the jobs of sync, fetch, forall and status are those of the projects
\* (group-eligible ones for sync and fetch) whose checkout path is one of the
\* path arguments or nested under one of them, and of all of them when no path
\* is given: with projects at a, a/b and c, the path a selects those at a and
\* a/b and not the one at c, and the paths a/b and c select those two.
C11_PathScoping ==
  TreeJobsStarted =>
    LET U == proc.under
        candidates == IF proc.cmd \in SyncCommands
                      THEN {p \in Projects : eligible(GroupsOf(p), tree.filters)}
                      ELSE Projects
        under(p) == \E i \in 1..Len(U) :
                      \/ PathOf(p) = U[i]
                      \/ /\ Len(PathOf(p)) > Len(U[i])
                         /\ \A k \in 1..Len(U[i]) : PathOf(p)[k] = U[i][k]
    IN /\ U = <<>> => Scheduled = candidates
       /\ U # <<>> => Scheduled = {p \in candidates : under(p)}
       /\ U = <<PathA>> => Scheduled = candidates \cap {ProjP, ProjQ}
       /\ U = <<PathAB, PathC>> => Scheduled = candidates \cap {ProjQ, ProjR}

\* A sync of the path a in a tree without group filters: the jobs of the
\* projects at a and a/b are queued, and none for the project at c.
C11_Witness ==
  /\ proc.pc = "jobs"
  /\ proc.cmd = "sync"
  /\ proc.under = <<PathA>>
  /\ tree.filters = <<>>
  /\ proc.jobs = [p \in Projects |-> IF p = ProjR THEN "none" ELSE "queued"]

Slashes(target) == Cardinality({i \in 1..Len(target) : target[i] = "/"})
CloneBegins == CanStart /\ proc'.cmd \in {"clone", "init"} /\ proc' # proc

\* C15: a clone or init of the target <remote>/<branch> resolves it to that
\* remote and branch, of a target without '/' to that remote and the branch
\* master, and rejects a target with two '/' or more as invalid with nothing
\* created; clone without a directory creates the directory named after the
\* branch, clone with a directory that directory, and init uses ".".
C15_TargetResolution ==
  [][CloneBegins =>
       LET t == proc'.target
       IN /\ Slashes(t) >= 2 =>
               /\ proc'.pc = "exited"
               /\ proc'.result.kind = "err"
               /\ proc'.result.msg = "invalid target"
               /\ UNCHANGED <<tree, objMirror, refMirror, work>>
          /\ Slashes(t) = 1 =>
               \E i \in 1..Len(t) :
                 /\ t[i] = "/"
                 /\ proc'.resolved = [remote |-> SubSeq(t, 1, i - 1), branch |-> SubSeq(t, i + 1, Len(t))]
          /\ Slashes(t) = 0 => proc'.resolved = [remote |-> t, branch |-> <<"master">>]
          /\ Slashes(t) < 2 =>
               tree'.root = IF proc'.cmd = "init" THEN <<".">>
                            ELSE IF proc'.directory = <<>> THEN proc'.resolved.branch
                            ELSE proc'.directory[1]]_vars

\* A clone of the target a/main without a directory whose tree is in the
\* directory main.
C15_Witness ==
  /\ proc.cmd = "clone"
  /\ proc.pc = "jobs"
  /\ proc.target = TargetMain
  /\ proc.directory = <<>>
  /\ proc.resolved = [remote |-> <<"a">>, branch |-> Main]
  /\ tree.exists
  /\ tree.root = Main

\* C21: while the jobs of a subcommand run, its fetch and checkout types are
\* (FetchExceptManifest, Checkout) for clone and init, (Fetch, NoCheckout) for
\* fetch and (Fetch, Checkout) for sync, with NoFetch in place of the fetch
\* type when -l was given; no step of a subcommand given -l changes an object
\* mirror or a ref mirror, and no step of fetch changes a checkout.
C21_FetchCheckoutTypes ==
  [][/\ (proc.pc = "jobs" /\ proc.cmd \in {"clone", "init"}) =>
          /\ proc.fetch = IF proc.local THEN "NoFetch" ELSE "FetchExceptManifest"
          /\ proc.checkout = "Checkout"
     /\ (proc.pc = "jobs" /\ proc.cmd = "fetch") =>
          /\ ~proc.local
          /\ proc.fetch = "Fetch"
          /\ proc.checkout = "NoCheckout"
          /\ work' = work
     /\ (proc.pc = "jobs" /\ proc.cmd = "sync") =>
          /\ proc.fetch = IF proc.local THEN "NoFetch" ELSE "Fetch"
          /\ proc.checkout = "Checkout"
     /\ (proc.pc = "jobs" /\ proc.cmd \in SyncCommands /\ proc.local) =>
          /\ objMirror' = objMirror
          /\ refMirror' = refMirror]_vars

\* A sync given -l that has returned after checking out, from the depot, a
\* project fetched by an earlier subcommand.
C21_Witness ==
  /\ SyncReturned
  /\ proc.cmd = "sync"
  /\ proc.local
  /\ proc.fetch = "NoFetch"
  /\ proc.jobs[ProjP] = "done"
  /\ work[ProjP].head = MaxCommit

====
